---- MODULE Spec2Model ----
(***************************************************************************)
(* Model of the SecureAI rate limiting API (src/main.py).                  *)
(*                                                                         *)
(* The state is the module-level request_store (client key -> deque of     *)
(* admitted timestamps), the wall clock that time.time() reads, the        *)
(* requests that the server has accepted and whose handler coroutine has   *)
(* not run yet, and the last response the endpoint produced.               *)
(*                                                                         *)
(* Time is an integer number of ticks, TicksPerSecond ticks per second,    *)
(* so that sub-second arrival times can be told apart.                     *)
(* Strings are sequences of one-character strings.                         *)
(***************************************************************************)
EXTENDS Integers, Sequences, FiniteSets, TLC

VARIABLES
    clock,          \* value the next time.time() call returns, in ticks
    request_store,  \* request_store: key -> deque of timestamps (line 32)
    inflight,       \* requests accepted by the server, handler not yet run
    resp,           \* last response of /secure-ai (with the call's key, time)
    prev,           \* history: status and time of the response before it
    req,            \* history: the body and peer of the last request answered
    admitted        \* history: key -> every timestamp ever admitted for it

vars == <<clock, request_store, inflight, resp, prev, req, admitted>>

----------------------------------------------------------------------------
(* Configuration, lines 26-29 *)

MAX_REQUESTS_PER_MIN == 44
BURST_LIMIT == 13
WINDOW_SECONDS == 60
BURST_WINDOW == 5

(* Resolution of the model's clock. *)
TicksPerSecond == 10

(* Largest number of requests of one client waiting for their handler.     *)
MaxInflight == 2

Seconds(s) == s * TicksPerSecond

----------------------------------------------------------------------------
(* Pure helpers *)

None == "None"

(* a pruning loop that also drops the entry exactly WINDOW_SECONDS old *)
RECURSIVE PopStaleInclusive(_, _)
PopStaleInclusive(timestamps, window_start) ==
    IF timestamps # <<>> /\ Head(timestamps) <= window_start
    THEN PopStaleInclusive(Tail(timestamps), window_start)
    ELSE timestamps

(* an `if` in the place of the `while`: at most one stale entry is popped *)
PopStaleOnce(timestamps, window_start) ==
    IF timestamps # <<>> /\ Head(timestamps) < window_start
    THEN Tail(timestamps)
    ELSE timestamps

(* deque loop of lines 58-59: pop from the left while the head is stale *)
RECURSIVE PopStale(_, _)
PopStale(timestamps, window_start) ==
    IF timestamps # <<>> /\ Head(timestamps) < window_start
    THEN PopStale(Tail(timestamps), window_start)
    ELSE timestamps

(* a sustained test that turns away the request that would fill the log *)
OverLimitEarly(request_count) == request_count + 1 >= MAX_REQUESTS_PER_MIN

(* line 64 *)
OverLimit(request_count) == request_count >= MAX_REQUESTS_PER_MIN

(* a burst test that does not look at the count and takes an empty log    *)
(* for a dense one                                                         *)
BurstBlockedNoCount(timestamps, request_count, now) ==
    LET first_in_window == IF timestamps # <<>> THEN Head(timestamps) ELSE now
    IN  now - first_in_window <= Seconds(BURST_WINDOW)

(* a burst test that lets the request exactly BURST_WINDOW late through *)
BurstBlockedStrict(timestamps, request_count, now) ==
    /\ request_count >= BURST_LIMIT
    /\ LET first_in_window == IF timestamps # <<>> THEN Head(timestamps) ELSE now
       IN  now - first_in_window < Seconds(BURST_WINDOW)

(* a burst test that never expires: blocked for as long as BURST_LIMIT    *)
(* entries are retained                                                    *)
BurstBlockedPermanent(timestamps, request_count, now) ==
    request_count >= BURST_LIMIT

(* lines 69-72 *)
BurstBlocked(timestamps, request_count, now) ==
    /\ request_count >= BURST_LIMIT
    /\ LET first_in_window == IF timestamps # <<>> THEN Head(timestamps) ELSE now
       IN  now - first_in_window <= Seconds(BURST_WINDOW)

(* a limiter that also records the attempts it turns away *)
check_rate_limit_recording(stored, now) ==
    LET window_start == now - Seconds(WINDOW_SECONDS)
        timestamps == PopStale(stored, window_start)
        request_count == Len(timestamps)
    IN  IF OverLimit(request_count) \/ BurstBlocked(timestamps, request_count, now)
        THEN [allowed |-> FALSE, count |-> request_count,
              log |-> Append(timestamps, now)]
        ELSE [allowed |-> TRUE, count |-> request_count + 1,
              log |-> Append(timestamps, now)]

(* a limiter that puts the new timestamp at the left end of the deque *)
check_rate_limit_appendleft(stored, now) ==
    LET window_start == now - Seconds(WINDOW_SECONDS)
        timestamps == PopStale(stored, window_start)
        request_count == Len(timestamps)
    IN  IF OverLimit(request_count) \/ BurstBlocked(timestamps, request_count, now)
        THEN [allowed |-> FALSE, count |-> request_count, log |-> timestamps]
        ELSE [allowed |-> TRUE, count |-> request_count + 1,
              log |-> <<now>> \o timestamps]

(* a limiter that returns the count it found, also when it admits *)
check_rate_limit_found(stored, now) ==
    LET window_start == now - Seconds(WINDOW_SECONDS)
        timestamps == PopStale(stored, window_start)
        request_count == Len(timestamps)
    IN  IF OverLimit(request_count) \/ BurstBlocked(timestamps, request_count, now)
        THEN [allowed |-> FALSE, count |-> request_count, log |-> timestamps]
        ELSE [allowed |-> TRUE, count |-> request_count,
              log |-> Append(timestamps, now)]

(* check_rate_limit, lines 52-76, as a function of the key's deque and of  *)
(* the clock reading: the verdict, the returned count and the deque the    *)
(* call leaves behind.                                                     *)
check_rate_limit(stored, now) ==
    LET window_start == now - Seconds(WINDOW_SECONDS)
        timestamps == PopStale(stored, window_start)
        request_count == Len(timestamps)
    IN  IF OverLimit(request_count)
        THEN [allowed |-> FALSE, count |-> request_count, log |-> timestamps]
        ELSE IF BurstBlocked(timestamps, request_count, now)
        THEN [allowed |-> FALSE, count |-> request_count, log |-> timestamps]
        ELSE [allowed |-> TRUE, count |-> request_count + 1,
              log |-> Append(timestamps, now)]

(* get_client_key, lines 48-50: f"{user_id}:{ip}" *)
get_client_key(user_id, client) ==
    LET ip == IF client # None THEN client ELSE <<"u","n","k","n","o","w","n">>
    IN  user_id \o <<":">> \o ip

(* str.strip() of line 113: whitespace is removed at both ends *)
IsSpace(c) == c \in {" ", "\t", "\n", "\r"}

RECURSIVE LStrip(_)
LStrip(s) == IF s # <<>> /\ IsSpace(Head(s)) THEN LStrip(Tail(s)) ELSE s

RECURSIVE RStrip(_)
RStrip(s) ==
    IF s # <<>> /\ IsSpace(s[Len(s)])
    THEN RStrip(SubSeq(s, 1, Len(s) - 1))
    ELSE s

(* a trim of the left end only *)
lstrip(s) == LStrip(s)

strip(s) == RStrip(LStrip(s))

(* a lookup that hands every call a new, empty deque *)
LogFresh(store, key) == <<>>

(* defaultdict(deque) of line 32: a missing key reads as an empty deque *)
Log(store, key) == IF key \in DOMAIN store THEN store[key] ELSE <<>>

(* one deque shared by every key *)
StoreShared(store, key, log) ==
    [k \in DOMAIN store \cup {key} |-> log]

(* request_store[key] of line 55 creates the entry; the deque is then      *)
(* mutated in place.                                                       *)
StoreWith(store, key, log) ==
    [k \in DOMAIN store \cup {key} |-> IF k = key THEN log ELSE store[k]]

----------------------------------------------------------------------------
(* Responses of secure_ai *)

NoResponse ==
    [status |-> 0, blocked |-> FALSE, reason |-> None, sanitizedOutput |-> None,
     confidence |-> 0, retryAfter |-> None, key |-> None, at |-> -1, count |-> 0]

(* lines 89-105 *)
BlockedResponse(key, now, count) ==
    [status |-> 429, blocked |-> TRUE,
     reason |-> "Rate limit exceeded: max 44/min with burst 13",
     sanitizedOutput |-> None, confidence |-> 99, retryAfter |-> 60,
     key |-> key, at |-> now, count |-> count]

(* lines 107-115 *)
AllowedResponse(key, now, count, input) ==
    [status |-> 200, blocked |-> FALSE,
     reason |-> "Input passed all security checks",
     sanitizedOutput |-> strip(input), confidence |-> 95, retryAfter |-> None,
     key |-> key, at |-> now, count |-> count]

(* lines 83-84 and 117-126 *)
ValidationResponse ==
    [status |-> 400, blocked |-> TRUE, reason |-> "Validation error",
     sanitizedOutput |-> None, confidence |-> 90, retryAfter |-> None,
     key |-> None, at |-> -1, count |-> 0]

(* The answer of the framework to a body that does not fit InputData      *)
(* (lines 42-45): FastAPI validates the body before it calls the handler   *)
(* and answers 422 with its own error detail.                              *)
UnprocessableResponse ==
    [status |-> 422, blocked |-> None, reason |-> None,
     sanitizedOutput |-> None, confidence |-> 0, retryAfter |-> None,
     key |-> None, at |-> -1, count |-> 0]

NoRequest == <<None, None, None>>

----------------------------------------------------------------------------
(* State *)

Init ==
    /\ clock = 0
    /\ request_store = <<>>
    /\ inflight = <<>>
    /\ resp = NoResponse
    /\ prev = [status |-> 0, at |-> -1]
    /\ req = NoRequest
    /\ admitted = <<>>

(* The body of the handler secure_ai, lines 80-115.  It is an `async def`  *)
(* without any await, so the event loop runs it to completion before any   *)
(* other handler: one step.                                                *)
secure_ai(userId, input, client) ==
    /\ prev' = [status |-> resp.status, at |-> resp.at]
    /\ req' = <<userId, input, client>>
    /\ IF userId = <<>> \/ input = <<>>
       THEN /\ resp' = ValidationResponse
            /\ UNCHANGED <<request_store, admitted>>
       ELSE
         LET key == get_client_key(userId, client)
             now == clock
             r == check_rate_limit(Log(request_store, key), now)
         IN  /\ request_store' = StoreWith(request_store, key, r.log)
             /\ admitted' = StoreWith(admitted, key,
                    IF r.allowed THEN Append(Log(admitted, key), now)
                                 ELSE Log(admitted, key))
             /\ resp' = IF r.allowed
                        THEN AllowedResponse(key, now, r.count, input)
                        ELSE BlockedResponse(key, now, r.count)

(* POST /secure-ai, lines 42-45 and 79-80: the body is parsed into         *)
(* InputData, whose fields userId and input are required strings (None     *)
(* stands for a field the body does not have); only a body that fits is    *)
(* handed to the handler.                                                  *)
Post(userId, input, client) ==
    /\ IF userId = None \/ input = None
       THEN /\ resp' = UnprocessableResponse
            /\ prev' = [status |-> resp.status, at |-> resp.at]
            /\ req' = <<userId, input, client>>
            /\ UNCHANGED <<request_store, admitted>>
       ELSE secure_ai(userId, input, client)
    /\ UNCHANGED <<clock, inflight>>

(* A client sends a request and waits for the answer.                      *)
Call(userId, input, client) ==
    /\ secure_ai(userId, input, client)
    /\ UNCHANGED <<clock, inflight>>

(* number of accepted requests with this body whose handler has not run *)
Waiting(data) == IF data \in DOMAIN inflight THEN inflight[data] ELSE 0

(* The server accepts a request while others are still waiting; the        *)
(* handler coroutine is scheduled on the event loop.                       *)
Arrive(userId, input, client) ==
    LET data == <<userId, input, client>>
    IN  /\ Waiting(data) < MaxInflight
        /\ inflight' = [d \in DOMAIN inflight \cup {data} |->
                           IF d = data THEN Waiting(data) + 1 ELSE inflight[d]]
        /\ UNCHANGED <<clock, request_store, resp, prev, req, admitted>>

(* Handlers that yield between the limit test and the append: two waiting *)
(* calls on the same key both test the log before either appends to it.    *)
DispatchInterleaved(userId, input, client) ==
    LET data == <<userId, input, client>>
        key == get_client_key(userId, client)
        now == clock
        r == check_rate_limit(Log(request_store, key), now)
        both == Waiting(data) >= 2
        log == IF both /\ r.allowed THEN Append(r.log, now) ELSE r.log
        hist == IF r.allowed THEN Append(Log(admitted, key), now)
                             ELSE Log(admitted, key)
    IN  /\ Waiting(data) > 0
        /\ inflight' = [inflight EXCEPT ![data] = @ - (IF both THEN 2 ELSE 1)]
        /\ request_store' = StoreWith(request_store, key, log)
        /\ admitted' = StoreWith(admitted, key,
               IF both /\ r.allowed THEN Append(hist, now) ELSE hist)
        /\ resp' = IF r.allowed
                   THEN AllowedResponse(key, now, r.count, input)
                   ELSE BlockedResponse(key, now, r.count)
        /\ prev' = [status |-> resp.status, at |-> resp.at]
        /\ req' = data
        /\ UNCHANGED clock

(* The event loop runs the handler of one waiting request, in any order.   *)
Dispatch(userId, input, client) ==
    LET data == <<userId, input, client>>
    IN  /\ Waiting(data) > 0
        /\ inflight' = [inflight EXCEPT ![data] = @ - 1]
        /\ secure_ai(userId, input, client)
        /\ UNCHANGED clock

(* Time passes: the clock moves forward to one of the given instants.      *)
Tick(points) ==
    /\ \E t \in points : t > clock /\ clock' = t
    /\ UNCHANGED <<request_store, inflight, resp, prev, req, admitted>>

----------------------------------------------------------------------------
(* Inputs *)

UserA == <<"a">>
UserB == <<"b">>
Host == <<"1">>
Text == <<" ", "x", " ">>
KeyA == get_client_key(UserA, Host)
KeyB == get_client_key(UserB, Host)

(* instants around the full window: 0, 6 s, 60 s, 60 s + 1 tick *)
WindowPoints ==
    {0, Seconds(BURST_WINDOW + 1), Seconds(WINDOW_SECONDS),
     Seconds(WINDOW_SECONDS) + 1}

(* every instant some specification below can reach *)
AllPoints ==
    {0, 1, 2, Seconds(BURST_WINDOW), Seconds(BURST_WINDOW) + 1,
     Seconds(BURST_WINDOW + 1), Seconds(30), Seconds(WINDOW_SECONDS),
     Seconds(WINDOW_SECONDS) + 1, Seconds(WINDOW_SECONDS + 1)}

(* the instants from the current clock reading on *)
Later == {t \in AllPoints : t >= clock}

(* One client, calling one request after the other, over a window.         *)
Next ==
    \/ Call(UserA, Text, Host)
    \/ Tick(WindowPoints)

Spec == Init /\ [][Next]_vars

(* instants around the burst window: 0, 5 s, 5 s + 1 tick *)
BurstPoints == {0, Seconds(BURST_WINDOW), Seconds(BURST_WINDOW) + 1}

(* One client, calling one request after the other, over a burst window.   *)
NextBurst ==
    \/ Call(UserA, Text, Host)
    \/ Tick(BurstPoints)

SpecBurst == Init /\ [][NextBurst]_vars

(* One client with several requests waiting at once. *)
NextConc ==
    \/ Arrive(UserA, Text, Host)
    \/ Dispatch(UserA, Text, Host)
    \/ Tick(BurstPoints)

SpecConc == Init /\ [][NextConc]_vars

(* 2 x MAX_REQUESTS_PER_MIN requests of one client accepted at once, its   *)
(* log empty.                                                              *)
InitSat ==
    /\ clock = 0
    /\ request_store = <<>>
    /\ inflight = [d \in {<<UserA, Text, Host>>} |-> 2 * MAX_REQUESTS_PER_MIN]
    /\ resp = NoResponse
    /\ prev = [status |-> 0, at |-> -1]
    /\ req = NoRequest
    /\ admitted = <<>>

NextSat ==
    \/ Dispatch(UserA, Text, Host)
    \/ Tick(BurstPoints)

SpecSat == InitSat /\ [][NextSat]_vars

(* Two clients, each calling one request after the other. *)
TwoPoints == {0, Seconds(BURST_WINDOW) + 1}

NextTwo ==
    \/ \E userId \in {UserA, UserB} : Call(userId, Text, Host)
    \/ Tick(TwoPoints)

SpecTwo == Init /\ [][NextTwo]_vars

(* The example trace of the specification: 13 requests at 0..0.1 s, one at *)
(* 0.2 s, one at 6 s, further requests between 6 s and 60 s until one is   *)
(* sent with 44 admitted, then one at 61 s.                                *)
Tenth == TicksPerSecond \div 10
ExampleStart == Seconds(BURST_WINDOW + 1)
ExampleEnd == Seconds(WINDOW_SECONDS)
ExampleLast == Seconds(WINDOW_SECONDS + 1)
Hist == Log(admitted, KeyA)
LimitHit == resp.status = 429 /\ resp.at >= ExampleStart

ExampleCall ==
    /\ \/ clock <= Tenth /\ Len(Hist) < BURST_LIMIT
       \/ clock = 2 * Tenth /\ resp.at < clock
       \/ /\ clock >= ExampleStart /\ clock <= ExampleEnd
          /\ Len(Hist) <= MAX_REQUESTS_PER_MIN
          /\ ~LimitHit
       \/ clock = ExampleLast /\ resp.at < clock
    /\ Call(UserA, Text, Host)

ExampleTick ==
    \/ clock = 0 /\ Tick({Tenth})
    \/ clock <= Tenth /\ Len(Hist) = BURST_LIMIT /\ Tick({2 * Tenth})
    \/ clock = 2 * Tenth /\ resp.at = clock /\ Tick({ExampleStart})
    \/ /\ clock >= ExampleStart /\ resp.at >= ExampleStart /\ ~LimitHit
       /\ Tick({Seconds(30), ExampleEnd})
    \/ clock >= ExampleStart /\ LimitHit /\ Tick({ExampleLast})

NextExample == ExampleCall \/ ExampleTick

SpecExample == Init /\ [][NextExample]_vars

(* One client that keeps retrying while the clock keeps advancing: it      *)
(* calls at will at 0, 0.1 s and 5.2 s, and at the last instant, more than *)
(* a window later, it calls only to retry a rejected request.              *)
LivePoints == {0, 1, Seconds(BURST_WINDOW) + 2}
LiveLast == Seconds(BURST_WINDOW) + 2 + Seconds(WINDOW_SECONDS) + 1

LiveCall ==
    /\ clock < LiveLast \/ resp.status = 429
    /\ Call(UserA, Text, Host)

LiveTick == Tick(LivePoints \cup {LiveLast})

NextLive == LiveCall \/ LiveTick

(* the clock keeps advancing and a call that would change the answer or    *)
(* the log is eventually made                                              *)
SpecLive ==
    /\ Init /\ [][NextLive]_vars
    /\ WF_clock(LiveTick)
    /\ WF_<<request_store, prev, resp.status, resp.at, resp.count>>(LiveCall)

(* One client posting bodies of every kind: fields missing, empty, with    *)
(* and without whitespace around the text.                                 *)
Texts ==
    {Text, <<"x">>, <<" ", "\t">>, <<"\t", "x", " ", "y", "\n">>}

NextEndpoint ==
    \/ \E userId \in {UserA, <<>>}, input \in Texts \cup {<<>>} :
           Post(userId, input, Host)
    \/ \E input \in Texts \cup {<<>>} : Post(None, input, Host)
    \/ \E userId \in {UserA, <<>>} : Post(userId, None, Host)
    \/ Tick(TwoPoints)

SpecEndpoint == Init /\ [][NextEndpoint]_vars

----------------------------------------------------------------------------
(* Vocabulary of the properties *)

Win == Seconds(WINDOW_SECONDS)
BurstWin == Seconds(BURST_WINDOW)

Keys == DOMAIN request_store

(* the entries of a log that are at most WINDOW_SECONDS old at `now` *)
Retained(log, now) == SelectSeq(log, LAMBDA t : now - t <= Win)

(* number of admitted requests of key k with a timestamp in [from, to] *)
AdmittedIn(k, from, to) ==
    Cardinality({i \in 1..Len(admitted[k]) :
                    from <= admitted[k][i] /\ admitted[k][i] <= to})

Rejected == resp.status = 429
Admitted == resp.status = 200

----------------------------------------------------------------------------
(* C1: sustained limit.  For every key, no interval of length              *)
(* WINDOW_SECONDS holds more than MAX_REQUESTS_PER_MIN admitted            *)
(* timestamps, the key's log never holds more than MAX_REQUESTS_PER_MIN    *)
(* entries, and a call that finds MAX_REQUESTS_PER_MIN retained entries is *)
(* rejected whatever their spacing.                                        *)
C1_SustainedLimit ==
    \A k \in Keys :
        /\ Len(request_store[k]) <= MAX_REQUESTS_PER_MIN
        /\ \A from \in {admitted[k][i] : i \in 1..Len(admitted[k])} :
              AdmittedIn(k, from, from + Win) <= MAX_REQUESTS_PER_MIN
        /\ \A now \in Later :
              Len(Retained(request_store[k], now)) >= MAX_REQUESTS_PER_MIN
                  => ~check_rate_limit(request_store[k], now).allowed

(* the window has slid: more than the limit admitted overall, the log is   *)
(* full again and the last call was turned away at the limit               *)
C1_Witness ==
    /\ KeyA \in Keys
    /\ Len(admitted[KeyA]) > MAX_REQUESTS_PER_MIN
    /\ Len(request_store[KeyA]) = MAX_REQUESTS_PER_MIN
    /\ Rejected /\ resp.count = MAX_REQUESTS_PER_MIN

----------------------------------------------------------------------------
(* C2: burst limit.  Once BURST_LIMIT requests of a key have been admitted *)
(* within the last BURST_WINDOW seconds, the next request inside that      *)
(* short window is rejected, whatever older entries the log still holds:   *)
(* no admitted request is the (BURST_LIMIT + 1)-th inside the BURST_WINDOW *)
(* seconds that end with it.                                               *)
C2_BurstLimit ==
    \A k \in Keys :
        (Admitted /\ resp.key = k)
            => AdmittedIn(k, resp.at - BurstWin, resp.at) <= BURST_LIMIT

----------------------------------------------------------------------------
(* The decision rule as the specification words it. *)
RuleRejects(log, now) ==
    LET kept == Retained(log, now)
        count == Len(kept)
    IN  \/ count >= MAX_REQUESTS_PER_MIN
        \/ count >= BURST_LIMIT /\ now - kept[1] <= BurstWin

(* C3: decision rule.  For every key, log and now, check_rate_limit        *)
(* rejects exactly when, after pruning, count >= MAX_REQUESTS_PER_MIN, or  *)
(* count >= BURST_LIMIT and the oldest retained timestamp is at most       *)
(* BURST_WINDOW seconds before now (boundary included); otherwise it       *)
(* admits.                                                                 *)
C3_DecisionRule ==
    \A k \in Keys : \A now \in Later :
        check_rate_limit(request_store[k], now).allowed
            <=> ~RuleRejects(request_store[k], now)

(* a call rejected by the burst test exactly BURST_WINDOW seconds after    *)
(* the oldest retained entry, far below the sustained limit                *)
C3_Witness ==
    /\ KeyA \in Keys
    /\ Rejected /\ resp.at = BurstWin /\ resp.count = BURST_LIMIT
    /\ request_store[KeyA][1] = 0
    /\ Len(request_store[KeyA]) = BURST_LIMIT

----------------------------------------------------------------------------
(* a step in which a call on key k is answered with a rejection *)
RejectedStep(k) ==
    /\ clock' = clock
    /\ resp'.status = 429 /\ resp'.key = k
    /\ <<resp, prev, request_store>>' # <<resp, prev, request_store>>

(* C4 as claimed: a call that returns not-admitted leaves the key's log    *)
(* exactly as it was before the call.                                      *)
C4_LogUntouchedOnReject ==
    [][\A k \in DOMAIN request_store' :
          RejectedStep(k) => request_store'[k] = Log(request_store, k)]_vars

(* C4 as amended: a rejected call appends nothing.  It leaves the log      *)
(* equal to its entries that are at most WINDOW_SECONDS old, records no    *)
(* admission, and no later call decides or counts differently for it.      *)
C4_RejectOnlyPrunes ==
    [][\A k \in DOMAIN request_store' :
          RejectedStep(k) =>
              /\ request_store'[k] = Retained(Log(request_store, k), clock)
              /\ Log(admitted', k) = Log(admitted, k)
              /\ \A now \in Later :
                    check_rate_limit(request_store'[k], now)
                        = check_rate_limit(Log(request_store, k), now)]_vars

(* a rejected call that pruned: the first call after the window passed     *)
(* the entry at 0 was rejected by the burst test, and rejected again       *)
C4_Witness ==
    /\ KeyA \in Keys
    /\ Rejected /\ resp.at = Win + 1
    /\ prev.status = 429 /\ prev.at = Win + 1
    /\ admitted[KeyA][1] = 0
    /\ request_store[KeyA][1] = Win
    /\ request_store[KeyA][Len(request_store[KeyA])] = Win

----------------------------------------------------------------------------
(* a step in which key k, whose last request was rejected, is called       *)
(* again `gap` ticks or more after that rejection                          *)
RetryStep(k, gap) ==
    /\ resp.status = 429 /\ resp.key = k
    /\ clock' = clock /\ clock >= resp.at + gap
    /\ resp'.at = clock /\ resp'.key = k

(* C8 as claimed: once WINDOW_SECONDS have elapsed since the rejection,    *)
(* the next call prunes the log to zero entries and admits.                *)
C8_ResetAfterWindow ==
    [][\A k \in DOMAIN request_store' :
          RetryStep(k, Win) =>
              /\ resp'.status = 200
              /\ request_store'[k] = <<clock>>]_vars

(* C8 as amended: once WINDOW_SECONDS have elapsed the next call is        *)
(* admitted, and once more than WINDOW_SECONDS have elapsed it finds the   *)
(* log pruned to zero entries and is admitted with count 1.                *)
C8_ResetPastWindow ==
    [][\A k \in DOMAIN request_store' :
          /\ RetryStep(k, Win) => resp'.status = 200
          /\ RetryStep(k, Win + 1) =>
                /\ resp'.status = 200 /\ resp'.count = 1
                /\ request_store'[k] = <<clock>>]_vars

(* the key was rejected at 0 and its next call, after more than a window,  *)
(* is admitted as the only entry of the log                                *)
C8_Witness ==
    /\ KeyA \in Keys
    /\ prev.status = 429 /\ prev.at = 0
    /\ Admitted /\ resp.at = Win + 1 /\ resp.count = 1
    /\ request_store[KeyA] = <<Win + 1>>

----------------------------------------------------------------------------
(* number of accepted requests whose handler has not run *)
RECURSIVE SumOver(_, _)
SumOver(f, S) ==
    IF S = {} THEN 0
    ELSE LET d == CHOOSE x \in S : TRUE IN f[d] + SumOver(f, S \ {d})

Pending == SumOver(inflight, DOMAIN inflight)

(* a step in which the handler of a waiting request runs *)
DispatchStep == Pending' < Pending

(* C5: per-key atomicity.  While several calls on one key are waiting,     *)
(* each handler that runs decides on the log as it is at that moment and   *)
(* leaves it fully pruned with its own timestamp appended when admitted:   *)
(* no two calls are admitted on the same count, no admitted timestamp is   *)
(* lost and the log never exceeds MAX_REQUESTS_PER_MIN entries.            *)
C5_Atomic ==
    /\ [](\A k \in Keys :
            /\ Len(request_store[k]) <= MAX_REQUESTS_PER_MIN
            /\ Retained(admitted[k], clock) = Retained(request_store[k], clock))
    /\ [][DispatchStep =>
            LET k == resp'.key
                old == Log(request_store, k)
                kept == Retained(old, clock)
            IN  IF RuleRejects(old, clock)
                THEN /\ resp'.status = 429 /\ resp'.count = Len(kept)
                     /\ request_store'[k] = kept
                     /\ Log(admitted', k) = Log(admitted, k)
                ELSE /\ resp'.status = 200 /\ resp'.count = Len(kept) + 1
                     /\ request_store'[k] = Append(kept, clock)
                     /\ Log(admitted', k) = Append(Log(admitted, k), clock)
                     /\ Pending' = Pending - 1]_vars

(* two calls were waiting on a key one short of the burst limit: one was   *)
(* admitted as the 13th, the other, run next, was rejected, and another    *)
(* call is waiting again                                                   *)
C5_Witness ==
    /\ KeyA \in Keys
    /\ Pending >= 1
    /\ Rejected /\ resp.at = 0 /\ resp.count = BURST_LIMIT
    /\ prev.status = 200 /\ prev.at = 0
    /\ Len(request_store[KeyA]) = BURST_LIMIT

----------------------------------------------------------------------------
(* C6 as claimed: 2 x MAX_REQUESTS_PER_MIN simultaneous decisions on an    *)
(* empty log yield exactly MAX_REQUESTS_PER_MIN admits.                    *)
C6_ExactlySustained ==
    Pending = 0 => Len(Log(admitted, KeyA)) = MAX_REQUESTS_PER_MIN

(* C6 as amended: when all the decisions read the clock within             *)
(* BURST_WINDOW seconds they yield exactly BURST_LIMIT admits and the rest *)
(* rejects; in no case are more than MAX_REQUESTS_PER_MIN admitted.        *)
C6_ExactlyBurst ==
    /\ Len(Log(admitted, KeyA)) <= MAX_REQUESTS_PER_MIN
    /\ (Pending = 0 /\ clock <= BurstWin) =>
          /\ Len(Log(admitted, KeyA)) = BURST_LIMIT
          /\ Len(Log(request_store, KeyA)) = BURST_LIMIT
          /\ Rejected

(* all the decisions were taken at the same instant *)
C6_Witness ==
    /\ Pending = 0 /\ clock = 0
    /\ Len(Log(admitted, KeyA)) = BURST_LIMIT
    /\ Rejected /\ resp.count = BURST_LIMIT

----------------------------------------------------------------------------
(* C7: cross-key independence.  A call on one key leaves the log of every  *)
(* other key unchanged, and its verdict and count are those the rule gives *)
(* on its own key's log alone.                                             *)
C7_Independence ==
    [][/\ \A j \in DOMAIN request_store :
             j # resp'.key =>
                 /\ j \in DOMAIN request_store'
                 /\ request_store'[j] = request_store[j]
       /\ \A k \in DOMAIN request_store' :
             (clock' = clock /\ resp'.key = k /\ resp' # resp) =>
                 LET old == Log(request_store, k)
                     kept == Retained(old, clock)
                 IN  IF RuleRejects(old, clock)
                     THEN /\ resp'.status = 429 /\ resp'.count = Len(kept)
                          /\ request_store'[k] = kept
                     ELSE /\ resp'.status = 200 /\ resp'.count = Len(kept) + 1
                          /\ request_store'[k] = Append(kept, clock)]_vars

(* key A is saturated and key B's first request has just been admitted *)
C7_Witness ==
    /\ KeyA \in Keys /\ KeyB \in Keys
    /\ Len(request_store[KeyA]) = MAX_REQUESTS_PER_MIN
    /\ Admitted /\ resp.key = KeyB /\ resp.count = 1
    /\ prev.status = 429

----------------------------------------------------------------------------
(* C9: the example, burst part.  The 13 requests at 0..0.1 s are admitted  *)
(* with counts 1..13, the 14th at 0.2 s is rejected, and the request at    *)
(* 6 s is admitted with count 14.                                          *)
C9_ExampleBurst ==
    /\ (resp.status # 0 /\ resp.at <= Tenth) =>
          /\ Admitted
          /\ resp.count = Len(Hist) /\ resp.count \in 1..BURST_LIMIT
    /\ resp.at = 2 * Tenth => Rejected /\ resp.count = BURST_LIMIT
    /\ (resp.at = ExampleStart /\ prev.at = 2 * Tenth) =>
          Admitted /\ resp.count = BURST_LIMIT + 1

(* the request at 6 s, right after the rejected one at 0.2 s, the first 13 *)
(* spread over 0 and 0.1 s                                                 *)
C9_Witness ==
    /\ resp.at = ExampleStart /\ Admitted /\ resp.count = BURST_LIMIT + 1
    /\ prev.status = 429 /\ prev.at = 2 * Tenth
    /\ Hist[1] = 0 /\ Hist[BURST_LIMIT] = Tenth

----------------------------------------------------------------------------
(* C10 as claimed: the request at 61 s finds the counts reset and is       *)
(* admitted with count 1.                                                  *)
C10_ExampleReset ==
    resp.at = ExampleLast => Admitted /\ resp.count = 1

(* C10 as amended: up to 60 s the only rejected request is the one that    *)
(* finds 44 entries, and the request at 61 s finds only the 13 entries of  *)
(* 0..0.1 s pruned: it is admitted with count 44 - 13 + 1 = 32.            *)
C10_ExampleSlides ==
    /\ Len(Hist) <= MAX_REQUESTS_PER_MIN + 1
    /\ LimitHit /\ resp.at <= ExampleEnd =>
          resp.count = MAX_REQUESTS_PER_MIN /\ Len(Hist) = MAX_REQUESTS_PER_MIN
    /\ resp.at = ExampleLast =>
          /\ Admitted
          /\ resp.count = MAX_REQUESTS_PER_MIN - BURST_LIMIT + 1
          /\ request_store[KeyA][1] = ExampleStart

(* the request at 61 s, right after the rejected 45th *)
C10_Witness ==
    /\ resp.at = ExampleLast /\ Admitted
    /\ prev.status = 429 /\ prev.at = ExampleEnd
    /\ Len(Hist) = MAX_REQUESTS_PER_MIN + 1

----------------------------------------------------------------------------
(* a step in which a call on key k is answered by the limiter *)
LimiterStep(k) ==
    /\ clock' = clock
    /\ resp'.status \in {200, 429}
    /\ resp'.key = k /\ resp'.at = clock
    /\ <<resp, prev, request_store>>' # <<resp, prev, request_store>>

(* C11: returned count.  Every call returns the number of entries the      *)
(* key's log holds when the call ends: the pruned length plus one when it  *)
(* admits, the pruned length when it rejects.                              *)
C11_ReturnedCount ==
    /\ []((Admitted \/ Rejected) =>
            /\ resp.key \in Keys
            /\ resp.count = Len(request_store[resp.key]))
    /\ [][\A k \in DOMAIN request_store' :
            LimiterStep(k) =>
                LET count == Len(Retained(Log(request_store, k), clock))
                IN  /\ resp'.status = 200 => resp'.count = count + 1
                    /\ resp'.status = 429 => resp'.count = count]_vars

(* a call rejected with the count left after pruning the entry of 0, right *)
(* after an admitted one                                                   *)
C11_Witness ==
    /\ KeyA \in Keys
    /\ Rejected /\ resp.at = Win + 1
    /\ resp.count = Len(admitted[KeyA]) - 1
    /\ admitted[KeyA][1] = 0 /\ admitted[KeyA][2] = Win
    /\ prev.status = 200 /\ prev.at = Win

----------------------------------------------------------------------------
(* C12: first-touch safety.  When several calls for a key never seen       *)
(* before are waiting at once, the first handler that runs creates the     *)
(* key's log, every later one appends to that same log, and the log holds  *)
(* the timestamp of every admitted call.                                   *)
C12_FirstTouch ==
    /\ [](/\ DOMAIN admitted = DOMAIN request_store
          /\ \A k \in Keys :
                Retained(request_store[k], clock) = Retained(admitted[k], clock))
    /\ [][DispatchStep =>
            LET k == resp'.key
            IN  IF k \notin DOMAIN request_store
                THEN /\ DOMAIN request_store' = DOMAIN request_store \cup {k}
                     /\ request_store'[k] = <<clock>>
                     /\ resp'.status = 200 /\ resp'.count = 1
                ELSE /\ DOMAIN request_store' = DOMAIN request_store
                     /\ resp'.status = 200 =>
                           request_store'[k] =
                               Append(Retained(request_store[k], clock), clock)]_vars

(* of the 88 calls waiting for the new key two have run: both timestamps   *)
(* are in the one log                                                      *)
C12_Witness ==
    /\ Pending = 2 * MAX_REQUESTS_PER_MIN - 2
    /\ Keys = {KeyA}
    /\ request_store[KeyA] = <<0, 0>>
    /\ Admitted /\ resp.count = 2 /\ prev.status = 200

----------------------------------------------------------------------------
(* a body with both userId and input present and not empty *)
Validated(r) ==
    /\ r[1] # None /\ r[1] # <<>>
    /\ r[2] # None /\ r[2] # <<>>

(* the text without the whitespace before its first and after its last     *)
(* character that is not whitespace                                        *)
Trimmed(s) ==
    LET solid == {i \in 1..Len(s) : s[i] \notin {" ", "\t", "\n", "\r"}}
    IN  IF solid = {} THEN <<>>
        ELSE SubSeq(s, CHOOSE i \in solid : \A j \in solid : i <= j,
                       CHOOSE i \in solid : \A j \in solid : i >= j)

(* C13: verdict mapping.  For every validated request the response is 429  *)
(* with Retry-After 60 and blocked = true exactly when check_rate_limit    *)
(* rejects, and 200 with blocked = false and sanitizedOutput the trimmed   *)
(* input exactly when it admits.                                           *)
C13_VerdictMapping ==
    /\ []((req # NoRequest /\ Validated(req)) =>
            \/ /\ resp.status = 429 /\ resp.blocked = TRUE
               /\ resp.retryAfter = 60 /\ resp.sanitizedOutput = None
            \/ /\ resp.status = 200 /\ resp.blocked = FALSE
               /\ resp.retryAfter = None
               /\ resp.sanitizedOutput = Trimmed(req[2]))
    /\ [][\A k \in DOMAIN request_store' :
            LimiterStep(k) =>
                /\ resp'.status = 429 <=> RuleRejects(Log(request_store, k), clock)
                /\ resp'.status = 200 <=> ~RuleRejects(Log(request_store, k), clock)]_vars

(* an admitted request whose text had whitespace at both ends and inside *)
C13_Witness ==
    /\ Admitted /\ resp.sanitizedOutput = <<"x", " ", "y">>
    /\ prev.status = 429
    /\ req = <<UserA, <<"\t", "x", " ", "y", "\n">>, Host>>

----------------------------------------------------------------------------
(* C14: validation errors never reach the limiter.  A request whose userId *)
(* or input is missing or empty is answered with status 400 and reason     *)
(* "Validation error", and request_store is unchanged by it.               *)
C14_ValidationError ==
    [][(clock' = clock /\ ~Validated(req')) =>
          /\ resp'.status = 400 /\ resp'.reason = "Validation error"
          /\ request_store' = request_store]_vars

----------------------------------------------------------------------------
(* C15: pruning is exact.  After a call at time now the key's log, apart   *)
(* from the appended now, is exactly the earlier entries that are at most  *)
(* WINDOW_SECONDS old: older ones are removed, one exactly WINDOW_SECONDS  *)
(* old is retained; so every timestamp in the log is within WINDOW_SECONDS *)
(* of the most recent pruning time.                                        *)
C15_PruningExact ==
    /\ []((Admitted \/ Rejected) =>
            \A i \in 1..Len(request_store[resp.key]) :
                /\ resp.at - request_store[resp.key][i] <= Win
                /\ resp.at - request_store[resp.key][i] >= 0)
    /\ [][\A k \in DOMAIN request_store' :
            LimiterStep(k) =>
                LET old == Log(request_store, k)
                    kept == SelectSeq(old, LAMBDA t : clock - t <= Win)
                IN  /\ request_store'[k] =
                          IF resp'.status = 200 THEN Append(kept, clock) ELSE kept
                    /\ \A i \in 1..Len(old) :
                          clock - old[i] = Win => request_store'[k][1] = old[i]]_vars

(* a call that removed the entry of 0, 60.1 s old, and retained the        *)
(* entries of 6 s                                                          *)
C15_Witness ==
    /\ KeyA \in Keys
    /\ Admitted /\ resp.at = Win + 1
    /\ admitted[KeyA][1] = 0
    /\ request_store[KeyA][1] = Seconds(BURST_WINDOW + 1)
    /\ Len(request_store[KeyA]) = MAX_REQUESTS_PER_MIN

----------------------------------------------------------------------------
(* C16: log ordering.  In every reachable state each key's log is          *)
(* non-decreasing, oldest first, and holds only timestamps of admitted     *)
(* requests (it is the tail of the key's admissions), also when calls on   *)
(* the key overlap.                                                        *)
C16_LogOrdered ==
    \A k \in Keys :
        LET log == request_store[k]
            all == Log(admitted, k)
        IN  /\ \A i \in 1..Len(log) - 1 : log[i] <= log[i + 1]
            /\ \A i \in 1..Len(log) : log[i] <= clock
            /\ Len(log) <= Len(all)
            /\ log = SubSeq(all, Len(all) - Len(log) + 1, Len(all))

(* a log with entries of two instants, written while calls were waiting *)
C16_Witness ==
    /\ KeyA \in Keys
    /\ Pending >= 1
    /\ Len(request_store[KeyA]) > BURST_LIMIT
    /\ request_store[KeyA][1] = 0
    /\ request_store[KeyA][Len(request_store[KeyA])] = BurstWin + 1
    /\ Admitted /\ resp.at = BurstWin + 1

----------------------------------------------------------------------------
(* C17: no permanent block.  A key that is being rejected is eventually    *)
(* admitted again when the clock keeps advancing and the client keeps      *)
(* retrying; a retry is admitted as soon as the log holds fewer than       *)
(* MAX_REQUESTS_PER_MIN entries and its oldest retained timestamp is more  *)
(* than BURST_WINDOW seconds old, without waiting for the full window.     *)
C17_NoPermanentBlock ==
    /\ Rejected ~> Admitted
    /\ [][\A k \in DOMAIN request_store' :
            (RetryStep(k, 0) /\ <<resp, prev>>' # <<resp, prev>>) =>
                LET kept == Retained(request_store[k], clock)
                IN  (/\ Len(kept) < MAX_REQUESTS_PER_MIN
                     /\ kept # <<>>
                     /\ clock - kept[1] > BurstWin) => resp'.status = 200]_vars

(* the key rejected by the burst test at 0.1 s is admitted as the 14th     *)
(* entry at 5.2 s, well inside the full window                             *)
C17_Witness ==
    /\ KeyA \in Keys
    /\ prev.status = 429 /\ prev.at = 1
    /\ Admitted /\ resp.at = BurstWin + 2 /\ resp.count = BURST_LIMIT + 1
    /\ request_store[KeyA][1] = 1

----------------------------------------------------------------------------
(* C18: the sustained bound is tight.  Some schedule of one key has        *)
(* exactly MAX_REQUESTS_PER_MIN requests admitted within one interval of   *)
(* WINDOW_SECONDS: the sustained test turns a request away only when the   *)
(* window already holds MAX_REQUESTS_PER_MIN admitted requests, never at   *)
(* MAX_REQUESTS_PER_MIN - 1.  A rejection whose oldest retained entry is   *)
(* too old for the burst test is a rejection by the sustained test.        *)
C18_SustainedTight ==
    Rejected =>
        LET k == resp.key
            log == request_store[k]
        IN  /\ log # <<>>
            /\ resp.at - log[1] > BurstWin =>
                  /\ resp.count = MAX_REQUESTS_PER_MIN
                  /\ Len(log) = MAX_REQUESTS_PER_MIN
                  /\ AdmittedIn(k, resp.at - Win, resp.at)
                        = MAX_REQUESTS_PER_MIN

(* exactly 44 requests admitted between 0 and 60 s, the first at 0, and    *)
(* the 45th turned away at 60 s with all 44 still in the window            *)
C18_Witness ==
    /\ KeyA \in Keys
    /\ Len(admitted[KeyA]) = MAX_REQUESTS_PER_MIN
    /\ admitted[KeyA][1] = 0
    /\ admitted[KeyA][MAX_REQUESTS_PER_MIN] > BurstWin
    /\ Rejected /\ resp.at = Win /\ resp.count = MAX_REQUESTS_PER_MIN
    /\ AdmittedIn(KeyA, 0, Win) = MAX_REQUESTS_PER_MIN

----------------------------------------------------------------------------
(* C19: an empty log always admits.  Whenever the log of a key holds no    *)
(* entry after pruning (a key never seen, or one whose entries have all    *)
(* aged out), check_rate_limit does not apply the burst test, admits,      *)
(* returns the count 1 and leaves the log equal to [now].                  *)
C19_EmptyLogAdmits ==
    /\ [](\A k \in Keys \cup {KeyA, KeyB} : \A now \in Later :
            Retained(Log(request_store, k), now) = <<>> =>
                /\ ~BurstBlocked(<<>>, 0, now)
                /\ check_rate_limit(Log(request_store, k), now)
                      = [allowed |-> TRUE, count |-> 1, log |-> <<now>>])
    /\ [][\A k \in DOMAIN request_store' :
            (/\ LimiterStep(k)
             /\ Retained(Log(request_store, k), clock) = <<>>) =>
                /\ resp'.status = 200 /\ resp'.count = 1
                /\ request_store'[k] = <<clock>>]_vars

(* a key that was never rejected is admitted with count 1 after all its    *)
(* entries, more than one, have aged out                                   *)
C19_Witness ==
    /\ KeyA \in Keys
    /\ Len(admitted[KeyA]) > 2
    /\ admitted[KeyA][Len(admitted[KeyA]) - 1] = 0
    /\ prev.status = 200 /\ prev.at = 0
    /\ Admitted /\ resp.at = Win + 1 /\ resp.count = 1
    /\ request_store[KeyA] = <<Win + 1>>

====
